---- MODULE Spec2Model ----
(***************************************************************************)
(* State-machine model of the React front end of the college assistant:    *)
(* the session (App, Layout, LoginPage), the route guard (ProtectedRoute), *)
(* the data pages' loads and the chat conversation (ChatInterface).        *)
(*                                                                         *)
(* Texts are sequences of tokens (" " is the whitespace token), so that   *)
(* String.prototype.trim is computed and not assumed.  A JavaScript object *)
(* is a record whose DOMAIN holds the properties that are present; reading *)
(* an absent property gives undefined, which is falsy.                     *)
(*                                                                         *)
(* React state is modelled as the component's current state (what a        *)
(* functional update `prev => ...` sees) together with the values captured *)
(* by the closures of the last committed render (cMessages, cLoading).     *)
(* An event handler runs against the closures, and the render that React   *)
(* flushes at the end of a discrete event is part of the handler's action. *)
(* Updates made by the continuation of an awaited promise are rendered by  *)
(* a later task: that render is the Render action.                         *)
(***************************************************************************)
EXTENDS Integers, Sequences, FiniteSets, Bags, TLC

VARIABLES
    token,          \* App: const [token, setToken] = useState(...)
    user,           \* App: const [user, setUser] = useState(null)
    stored,         \* localStorage item "token"
    effectPending,  \* App's useEffect([token]) is scheduled and has not run
    route,          \* the route whose element is mounted
    messages,       \* ChatInterface: messages state
    loading,        \* ChatInterface: loading state
    input,          \* ChatInterface: input state
    cMessages,      \* messages as captured by the last committed render
    cLoading,       \* loading as captured by the last committed render
    loginLoading,   \* LoginPage: loading state
    loginError,     \* LoginPage: error state
    pageLoading,    \* data page: loading state
    pageGot,        \* data page: calls of the Promise.all fulfilled so far
    pageData,       \* data page: calls whose result was stored by setX(data)
    apptFilled,     \* AppointmentPage: formData holds every required field
    apptShowConfirm,\* AppointmentPage: showConfirm state
    apptLoading,    \* AppointmentPage: loading state
    apptMessage,    \* AppointmentPage: message state
    pending,        \* bag of the requests in flight, as their callers hold them
    last            \* the last step: its operation, the HTTP requests it
                    \* sent and the answer it took (history)

sessionVars == <<token, user, stored, effectPending, route>>
chatVars == <<messages, loading, input, cMessages, cLoading>>
loginVars == <<loginLoading, loginError>>
pageVars == <<pageLoading, pageGot, pageData>>
apptVars == <<apptFilled, apptShowConfirm, apptLoading, apptMessage>>
vars == <<sessionVars, chatVars, loginVars, pageVars, apptVars, pending, last>>

(***************************************************************************)
(* Bounds of the model.                                                    *)
(***************************************************************************)
MaxMsgs == 3      \* a submission is taken while the transcript is shorter
MaxAbandoned == 1 \* requests in flight whose component is unmounted
MaxClasses == 3   \* total_classes of a generated attendance record
MaxRecords == 2   \* length of a generated attendance list

(***************************************************************************)
(* Values.                                                                 *)
(***************************************************************************)
Null == <<"null">>
Tokens == {<<"abc">>, <<"xyz">>}

Routes == {"portfolio", "login", "dashboard", "profile", "attendance",
           "schedule", "fees", "appointment", "chat"}
Protected == {"dashboard", "profile", "attendance", "schedule", "fees",
              "appointment", "chat"}

Has(obj, k) == k \in DOMAIN obj

\* String.prototype.trim on a sequence of tokens
RECURSIVE TrimLeft(_)
TrimLeft(s) ==
    IF s = <<>> THEN <<>>
    ELSE IF Head(s) = " " THEN TrimLeft(Tail(s)) ELSE s

RECURSIVE TrimRight(_)
TrimRight(s) ==
    IF s = <<>> THEN <<>>
    ELSE IF s[Len(s)] = " " THEN TrimRight(SubSeq(s, 1, Len(s) - 1)) ELSE s

\* variant: the text is taken as it is
Trim_None(s) == s

Trim(s) == TrimRight(TrimLeft(s))

\* JavaScript `a.k || d` for a text property k of object a
OrText(obj, k, d) == IF Has(obj, k) /\ obj[k] # <<>> THEN obj[k] ELSE d

\* JavaScript `a.k || d` for an array property k of object a ([] is truthy)
OrArray(obj, k, d) == IF Has(obj, k) THEN obj[k] ELSE d

(***************************************************************************)
(* Fixed texts of the source.                                              *)
(***************************************************************************)
AttendancePromptText == <<"Show my attendance">>
ChatPromptTexts == {<<"Today's", " ", "schedule">>}
FallbackReply == <<"Sorry, I could not process your request.">>
ChatErrorText == <<"Error: Could not connect to the server.">>
NoRecordsText == <<"No attendance records found for your courses.">>
AttendanceErrorText == <<"Error: Could not fetch attendance data.">>
LoginFallbackText == <<"Login failed. Please check your credentials.">>

\* Texts the user types into the chat input
TypedTexts == {<<>>, <<" ">>, <<" ", "hi">>}

(***************************************************************************)
(* What the backend can answer.  An outcome is a transport failure or an   *)
(* HTTP response (status, whether the body parses as JSON, decoded body).  *)
(***************************************************************************)
NetworkFailure == [kind |-> "network"]
Http(status, json, data) ==
    [kind |-> "http", status |-> status, json |-> json, data |-> data]

Unauthorized == Http(401, TRUE, [detail |-> <<"Not authenticated">>])
ServerError == Http(500, FALSE, [html |-> <<"Internal Server Error">>])

ChatBodies ==
    { [reply |-> <<"Hello">>],
      [reply |-> <<"Hello">>, sources |-> <<"doc1">>, actions |-> <<"act1">>],
      [reply |-> <<>>, sources |-> <<>>, actions |-> <<>>] }
ChatOutcomes ==
    {Http(200, TRUE, b) : b \in ChatBodies}
        \cup {Unauthorized, ServerError, NetworkFailure}

\* percentage is held in tenths of a percent (750 is 75.0)
Record(id, name, att, tot, pct) ==
    [course_id |-> id, course_name |-> name, attended |-> att,
     total_classes |-> tot, percentage |-> pct]
AttendanceLists ==
    { <<Record("C1", "Maths", 30, 40, 750), Record("C2", "Physics", 10, 20, 500)>>, <<>> }
AttendanceOutcomes ==
    {Http(200, TRUE, [attendance |-> a]) : a \in AttendanceLists}
        \cup {Unauthorized, ServerError, NetworkFailure}

\* Attendance lists drawn for the aggregation: every list of up to
\* MaxRecords records with attended <= total_classes <= MaxClasses and a
\* percentage on either side of the threshold (749 is 74.9, 750 is 75.0),
\* and the lists above.  No overall percentage of these lists lies midway
\* between two tenths, where toFixed would depend on the binary rounding of
\* the quotient.
Percentages == {749, 750}
AllRecords ==
    {Record("C1", "Maths", x[1], x[2], x[3]) :
        x \in {y \in (0..MaxClasses) \X (0..MaxClasses) \X Percentages :
                   y[1] <= y[2]}}
AllAttendanceLists ==
    UNION {[1..n -> AllRecords] : n \in 0..MaxRecords} \cup AttendanceLists
AllAttendanceOutcomes ==
    {Http(200, TRUE, [attendance |-> a]) : a \in AllAttendanceLists}
        \cup AttendanceOutcomes

LoginOutcomes ==
    {Http(200, TRUE, [token |-> t]) : t \in Tokens}
        \cup {Http(401, TRUE, [detail |-> <<"Invalid credentials">>]),
              Http(500, TRUE, [error |-> <<"boom">>]),
              NetworkFailure}

\* answers to POST /student/appointment
BookingOutcomes ==
    {Http(200, TRUE, [message |-> <<"Appointment booked">>]),
     Http(400, TRUE, [detail |-> <<"Slot not available">>]),
     Http(500, TRUE, [error |-> <<"boom">>]),
     NetworkFailure}

PageBody(op) ==
    CASE op = "getProfile" -> [name |-> <<"Asha">>]
      [] op = "getAttendance" ->
             [attendance |-> <<Record("C1", "Maths", 30, 40, 750)>>]
      [] op = "getSchedule" -> [count |-> 0]
      [] op = "getFees" -> [due |-> 0]
\* GET /student/attendance of a student enrolled in no course
EmptyAttendanceBody == [attendance |-> <<>>]

PageOutcomes(op) ==
    {Http(200, TRUE, PageBody(op)), Unauthorized, NetworkFailure}
        \cup (IF op = "getAttendance"
              THEN {Http(200, TRUE, EmptyAttendanceBody)} ELSE {})

\* A FeeStatus as GET /student/fees gives it.  The label and the amounts
\* come from the backend as they are: nothing in the front end ties the
\* label to the amount due, and a body may lack a field.
Fee(total, paid, due, status) ==
    [total |-> total, paid |-> paid, due |-> due, status |-> status]
FeeBodies ==
    { Fee(1000, 1000, 0, "Paid"), Fee(1000, 1000, 0, "Pending"),
      Fee(1000, 600, 400, "Pending"), Fee(1000, 600, 400, "Paid"),
      [total |-> 1000, paid |-> 600, status |-> "Pending"],
      [total |-> 1000, paid |-> 1000, status |-> "Paid"] }
FeeOutcomes ==
    {Http(200, TRUE, b) : b \in FeeBodies} \cup {Unauthorized, NetworkFailure}

\* fetch() rejects on a transport failure only; response.json() rejects on
\* a body that is not JSON.  The status is not looked at.
FetchRejects(o) == IF o.kind = "network" THEN TRUE ELSE ~o.json

\* axios rejects on a transport failure and on every status outside 2xx
AxiosRejects(o) ==
    IF o.kind = "network" THEN TRUE ELSE ~(o.status >= 200 /\ o.status < 300)

(***************************************************************************)
(* The attendance aggregation of fetchAttendance.                          *)
(***************************************************************************)
LowThreshold == 750   \* 75, in tenths of a percent

RECURSIVE SumField(_, _)
SumField(recs, f) ==
    IF recs = <<>> THEN 0 ELSE Head(recs)[f] + SumField(Tail(recs), f)

\* variant: the quotient is cut after the first decimal
ToFixed1_Truncate(a, t) == (1000 * a) \div t

\* ((a / t) * 100).toFixed(1), in tenths, rounding half up
ToFixed1(a, t) == (2000 * a + t) \div (2 * t)

\* variant: with no class held the attendance counts as full
OverallPercentage_FullWhenEmpty(recs) ==
    LET totalClasses == SumField(recs, "total_classes")
        totalAttended == SumField(recs, "attended")
    IN  IF totalClasses > 0 THEN ToFixed1(totalAttended, totalClasses)
        ELSE 1000

OverallPercentage(recs) ==
    LET totalClasses == SumField(recs, "total_classes")
        totalAttended == SumField(recs, "attended")
    IN  IF totalClasses > 0 THEN ToFixed1(totalAttended, totalClasses) ELSE 0

\* variant: a course at the threshold counts as low
RECURSIVE FilterLow_Inclusive(_)
FilterLow_Inclusive(recs) ==
    IF recs = <<>> THEN <<>>
    ELSE IF Head(recs).percentage <= LowThreshold
         THEN <<Head(recs)>> \o FilterLow_Inclusive(Tail(recs))
         ELSE FilterLow_Inclusive(Tail(recs))

RECURSIVE FilterLow(_)
FilterLow(recs) ==
    IF recs = <<>> THEN <<>>
    ELSE IF Head(recs).percentage < LowThreshold
         THEN <<Head(recs)>> \o FilterLow(Tail(recs))
         ELSE FilterLow(Tail(recs))

RecordLines(record, idx) ==
    <<ToString(idx), record.course_name, record.course_id,
      IF record.percentage >= LowThreshold THEN "ok" ELSE "warn",
      ToString(record.percentage), ToString(record.attended),
      ToString(record.total_classes)>>
      \o (IF record.percentage < LowThreshold
          THEN <<"Below 75% - Needs improvement!">> ELSE <<>>)

RECURSIVE Breakdown(_, _)
Breakdown(recs, idx) ==
    IF recs = <<>> THEN <<>>
    ELSE RecordLines(Head(recs), idx) \o Breakdown(Tail(recs), idx + 1)

FormattedContent(recs) ==
    LET lowAttendance == FilterLow(recs)
    IN  <<"Your Attendance Report", "Overall Attendance",
          ToString(OverallPercentage(recs)),
          "Total Classes", ToString(SumField(recs, "total_classes")),
          "Attended", ToString(SumField(recs, "attended")),
          "Subject-wise Breakdown">>
          \o Breakdown(recs, 1)
          \o (IF Len(lowAttendance) > 0
              THEN <<"Alert", ToString(Len(lowAttendance)),
                     "subject(s) below 75% attendance threshold.">>
              ELSE <<"Great job! All subjects have attendance above 75%.">>)

\* Attendance lists as a backend that computes the percentage of a course
\* from its counts gives them: every list of up to MaxRecords records with
\* attended <= total_classes, 1 <= total_classes <= MaxClasses and
\* percentage = 100 x attended / total_classes to one decimal.
GradedRecords ==
    {Record("C1", "Maths", x[1], x[2], ToFixed1(x[1], x[2])) :
        x \in {y \in (0..MaxClasses) \X (1..MaxClasses) : y[1] <= y[2]}}
GradedLists == UNION {[1..n -> GradedRecords] : n \in 0..MaxRecords}
GradedOutcomes ==
    {Http(200, TRUE, [attendance |-> a]) : a \in GradedLists}
        \cup {NetworkFailure}

(***************************************************************************)
(* Messages of the transcript.                                             *)
(***************************************************************************)
UserMessage(text) == [role |-> "user", content |-> text]

\* variant: the reply is shown as it came, with no placeholder for an empty
\* one
ChatReplyMessage_NoFallback(data) ==
    [role |-> "assistant",
     content |-> IF Has(data, "reply") THEN data.reply ELSE <<>>,
     sources |-> OrArray(data, "sources", <<>>),
     actions |-> OrArray(data, "actions", <<>>)]

\* sendMessage, after `const data = await response.json()`
ChatReplyMessage(data) ==
    [role |-> "assistant",
     content |-> OrText(data, "reply", FallbackReply),
     sources |-> OrArray(data, "sources", <<>>),
     actions |-> OrArray(data, "actions", <<>>)]

\* sendMessage, catch
ChatErrorMessage == [role |-> "assistant", content |-> ChatErrorText]

\* variant: the records are attached whatever the list
AttendanceMessage_AlwaysData(data) ==
    IF Has(data, "attendance") /\ Len(data.attendance) > 0
    THEN [role |-> "assistant",
          content |-> FormattedContent(data.attendance),
          attendanceData |-> data.attendance]
    ELSE [role |-> "assistant", content |-> NoRecordsText,
          attendanceData |-> <<>>]

\* fetchAttendance, after `const data = await response.json()`
AttendanceMessage(data) ==
    IF Has(data, "attendance") /\ Len(data.attendance) > 0
    THEN [role |-> "assistant",
          content |-> FormattedContent(data.attendance),
          attendanceData |-> data.attendance]
    ELSE [role |-> "assistant", content |-> NoRecordsText]

\* the visual cards of a message: one per record of msg.attendanceData,
\* emerald for record.percentage >= 75 and amber below
CardStyle(record) ==
    IF record.percentage >= LowThreshold THEN "emerald" ELSE "amber"

AttendanceCards(msg) ==
    IF Has(msg, "attendanceData")
    THEN [i \in 1..Len(msg.attendanceData) |-> CardStyle(msg.attendanceData[i])]
    ELSE <<>>

\* fetchAttendance, catch
AttendanceErrorMessage ==
    [role |-> "assistant", content |-> AttendanceErrorText]

(***************************************************************************)
(* Requests.                                                               *)
(***************************************************************************)
NoAuth == <<"none">>   \* the request carries no Authorization header

\* a request a component awaits; live: that component is still mounted
Request(op, by) == [op |-> op, by |-> by, live |-> TRUE]

\* a request as it goes to the backend: its Authorization header and body
Wire(op, auth, body) == [op |-> op, auth |-> auth, body |-> body]

One(r) == SetToBag({r})

\* variant: the interceptor sets no header
Interceptor_Absent(st) == NoAuth

\* api.interceptors.request.use: the header is set when the stored token is
\* truthy
Interceptor(st) == IF st # Null THEN st ELSE NoAuth

\* the calls a page makes from its mount effect
PageCalls(r) ==
    CASE r = "dashboard" ->
             {"getProfile", "getAttendance", "getSchedule", "getFees"}
      [] r = "profile" -> {"getProfile", "getAttendance", "getFees"}
      [] r = "attendance" -> {"getAttendance"}
      [] r = "schedule" -> {"getSchedule"}
      [] r = "fees" -> {"getFees"}
      [] OTHER -> {}

MountRequests(r) == SetToBag({Request(op, "page") : op \in PageCalls(r)})

MountWires(r, st) == {Wire(op, Interceptor(st), <<>>) : op \in PageCalls(r)}

\* The requests of an unmounted component.  The answer to a page's or the
\* appointment's request only updates the state of that component, and
\* React drops the update of an unmounted component: such a request leaves
\* the model with its component.  A login stays in flight: its continuation
\* calls setToken and navigate, which belong to App and to the router.  A
\* request of the chat stays in flight too: its answer arrives while a
\* later ChatInterface may be mounted.
Abandon(B) ==
    LET S == {r \in BagToSet(B) : r.op \in {"login", "chat", "attendance"}}
        T == {[r EXCEPT !.live = FALSE] : r \in S}
        Was(t) == [t EXCEPT !.live = TRUE]
    IN  [t \in T |-> (IF t \in S THEN B[t] ELSE 0)
                       + (IF Was(t) \in S THEN B[Was(t)] ELSE 0)]

NoData == [o \in {} |-> <<>>]

\* useState(null) of user: an object with no property
NoUser == NoData

\* AppointmentPage: a message is { type, text }; useState(null) shows none
NoMessage == [type |-> "none", text |-> <<>>]

(***************************************************************************)
(* App.                                                                    *)
(***************************************************************************)
\* variant: the children are rendered whatever the token
ProtectedRoute_Open(r, tok) == r

\* const ProtectedRoute = ({ children }) =>
\*     token ? children : <Navigate to="/login" />
ProtectedRoute(r, tok) ==
    IF r \in Protected THEN (IF tok # Null THEN r ELSE "login") ELSE r

\* variant: the effect removes the item whatever the token
AppEffect_AlwaysRemove(tok) == Null

\* useEffect(() => { if (token) setItem else removeItem }, [token])
AppEffect(tok) == IF tok # Null THEN tok ELSE Null

\* variant: the effect never writes localStorage
StoredAfterEffect_Never == stored

\* a scheduled passive effect runs before the next render starts
StoredAfterEffect == IF effectPending THEN AppEffect(token) ELSE stored

FlushEffects ==
    /\ stored' = StoredAfterEffect
    /\ effectPending' = FALSE

\* ChatPage hosts the ChatInterface.  (DashboardPage renders a second one
\* below its cards, the same component with the same props.)
ChatMounted == route = "chat"

\* the element of route `target` replaces the mounted one: every component
\* below the router is unmounted and the new page starts from its useState
\* initial values and runs its mount effect
GoTo(target, B) ==
    /\ BagCardinality(Abandon(B)) <= MaxAbandoned
    /\ route' = target
    /\ pending' = Abandon(B) (+) MountRequests(target)
    /\ messages' = <<>>
    /\ loading' = FALSE
    /\ input' = <<>>
    /\ cMessages' = <<>>
    /\ cLoading' = FALSE
    /\ loginLoading' = FALSE
    /\ loginError' = <<>>
    /\ pageLoading' = (PageCalls(target) # {})
    /\ pageGot' = NoData
    /\ pageData' = NoData
    /\ apptFilled' = FALSE
    /\ apptShowConfirm' = FALSE
    /\ apptLoading' = FALSE
    /\ apptMessage' = NoMessage

Init ==
    /\ stored \in Tokens \cup {Null}
    /\ token = stored
    /\ user = NoUser
    /\ effectPending = FALSE
    /\ \E r \in Routes : route = ProtectedRoute(r, token)
    /\ pending = MountRequests(route)
    /\ messages = <<>>
    /\ loading = FALSE
    /\ input = <<>>
    /\ cMessages = <<>>
    /\ cLoading = FALSE
    /\ loginLoading = FALSE
    /\ loginError = <<>>
    /\ pageLoading = (PageCalls(route) # {})
    /\ pageGot = NoData
    /\ pageData = NoData
    /\ apptFilled = FALSE
    /\ apptShowConfirm = FALSE
    /\ apptLoading = FALSE
    /\ apptMessage = NoMessage
    /\ last = [op |-> "Init", sent |-> MountWires(route, stored)]

\* a client-side navigation (a Link, history back or forward) to route r
Navigate(r) ==
    /\ r # route
    /\ FlushEffects
    /\ GoTo(ProtectedRoute(r, token), pending)
    /\ UNCHANGED <<token, user>>
    /\ last' = [op |-> "Navigate", to |-> r,
                sent |-> MountWires(route', stored')]

\* variant: the token is removed from localStorage and the state is kept
handleLogout_KeepsState ==
    /\ route \in Protected
    /\ stored' = Null
    /\ effectPending' = FALSE
    /\ GoTo("login", pending)
    /\ UNCHANGED <<token, user>>
    /\ last' = [op |-> "handleLogout", sent |-> MountWires(route', stored')]

\* Layout.handleLogout
handleLogout ==
    /\ route \in Protected
    /\ token' = Null
    /\ stored' = Null
    /\ effectPending' = FALSE
    /\ GoTo(ProtectedRoute("login", token'), pending)
    /\ UNCHANGED user
    /\ last' = [op |-> "handleLogout", sent |-> MountWires(route', stored')]

\* App's useEffect([token]) runs
RunEffect ==
    /\ effectPending
    /\ FlushEffects
    /\ UNCHANGED <<token, user, route, chatVars, loginVars, pageVars,
                   apptVars, pending>>
    /\ last' = [op |-> "RunEffect", sent |-> {}]

\* variant: the new document starts without a token (useState(null))
Reload_Forgets ==
    /\ token' = Null
    /\ user' = NoUser
    /\ stored' = stored
    /\ effectPending' = FALSE
    /\ GoTo(ProtectedRoute(route, token'), EmptyBag)
    /\ last' = [op |-> "Reload", had |-> token,
                sent |-> MountWires(route', stored')]

\* the document is loaded again at its URL (a reload, or a restored tab):
\* App starts from useState(localStorage.getItem("token")), every component
\* from its initial state, and the old document's requests and scheduled
\* effects are gone with it
Reload ==
    /\ token' = stored
    /\ user' = NoUser
    /\ stored' = stored
    /\ effectPending' = FALSE
    /\ GoTo(ProtectedRoute(route, token'), EmptyBag)
    /\ last' = [op |-> "Reload", had |-> token,
                sent |-> MountWires(route', stored')]

(***************************************************************************)
(* LoginPage.                                                              *)
(***************************************************************************)
\* handleSubmit up to `await apiService.login(studentId, password)`; the
\* submit button is disabled while loading
LoginSubmit ==
    /\ route = "login"
    /\ ~loginLoading
    /\ FlushEffects
    /\ loginError' = <<>>
    /\ loginLoading' = TRUE
    /\ pending' = pending (+) One(Request("login", "LoginPage"))
    /\ UNCHANGED <<token, user, route, chatVars, pageVars, apptVars>>
    /\ last' = [op |-> "LoginSubmit",
                sent |-> {Wire("login", Interceptor(stored'), <<>>)}]

\* variant: the route guard is evaluated with the token of the render that
\* sent the request
LoginSuccess_StaleGuard(r, o) ==
    /\ r \in BagToSet(pending)
    /\ r.op = "login"
    /\ o \in LoginOutcomes
    /\ ~AxiosRejects(o)
    /\ token' = o.data.token
    /\ user' = o.data
    /\ stored' = StoredAfterEffect
    /\ effectPending' = (token' # token)
    /\ IF route = "chat" /\ ProtectedRoute("chat", token) = "chat"
       THEN /\ pending' = pending (-) One(r)
            /\ UNCHANGED <<route, chatVars, loginVars, pageVars, apptVars>>
       ELSE GoTo(ProtectedRoute("chat", token), pending (-) One(r))
    /\ last' = [op |-> "LoginSuccess", outcome |-> o, live |-> r.live,
                sent |-> {}]

\* handleSubmit, try after the await: setToken, setUser, navigate("/chat").
\* setToken and navigate belong to App and to the router: they act also
\* when the LoginPage that sent the request is gone.
LoginSuccess(r, o) ==
    /\ r \in BagToSet(pending)
    /\ r.op = "login"
    /\ o \in LoginOutcomes
    /\ ~AxiosRejects(o)
    /\ token' = o.data.token
    /\ user' = o.data
    /\ stored' = StoredAfterEffect
    /\ effectPending' = (token' # token)
    /\ IF route = "chat" /\ ProtectedRoute("chat", token') = "chat"
       THEN /\ pending' = pending (-) One(r)
            /\ UNCHANGED <<route, chatVars, loginVars, pageVars, apptVars>>
       ELSE GoTo(ProtectedRoute("chat", token'), pending (-) One(r))
    /\ last' = [op |-> "LoginSuccess", outcome |-> o, live |-> r.live,
                sent |-> {}]

\* variant: the detail of the response is not read
LoginErrorText_Generic(o) == LoginFallbackText

\* err.response?.data?.detail || "Login failed. Please check your credentials."
LoginErrorText(o) ==
    IF o.kind = "http" THEN OrText(o.data, "detail", LoginFallbackText)
    ELSE LoginFallbackText

\* handleSubmit, catch and finally
LoginFailure(r, o) ==
    /\ r \in BagToSet(pending)
    /\ r.op = "login"
    /\ o \in LoginOutcomes
    /\ AxiosRejects(o)
    /\ pending' = pending (-) One(r)
    /\ IF r.live
       THEN /\ loginError' = LoginErrorText(o)
            /\ loginLoading' = FALSE
       ELSE UNCHANGED loginVars
    /\ UNCHANGED <<sessionVars, chatVars, pageVars, apptVars>>
    /\ last' = [op |-> "LoginFailure", outcome |-> o, live |-> r.live,
                sent |-> {}]

(***************************************************************************)
(* Data pages: fetchData of the mount effect.                              *)
(***************************************************************************)
\* one call of the page's `await` (a Promise.all on Dashboard and Profile)
\* is fulfilled with o, an answer to that call; when all are, the setX(data)
\* calls and finally run
PageFulfil(r, o) ==
    /\ r \in BagToSet(pending)
    /\ r.by = "page"
    /\ ~AxiosRejects(o)
    /\ pending' = pending (-) One(r)
    /\ IF r.live /\ pageLoading
       THEN LET got == [k \in DOMAIN pageGot \cup {r.op} |->
                            IF k = r.op THEN o.data ELSE pageGot[k]]
            IN  /\ pageGot' = got
                /\ IF DOMAIN got = PageCalls(route)
                   THEN pageData' = got /\ pageLoading' = FALSE
                   ELSE UNCHANGED <<pageData, pageLoading>>
       ELSE UNCHANGED pageVars
    /\ UNCHANGED <<sessionVars, chatVars, loginVars, apptVars>>
    /\ last' = [op |-> "PageFulfil", outcome |-> o, live |-> r.live,
                sent |-> {}]

\* one call is rejected: catch logs the error, finally clears loading
PageReject(r, o) ==
    /\ r \in BagToSet(pending)
    /\ r.by = "page"
    /\ AxiosRejects(o)
    /\ pending' = pending (-) One(r)
    /\ IF r.live /\ pageLoading
       THEN pageLoading' = FALSE /\ UNCHANGED <<pageGot, pageData>>
       ELSE UNCHANGED pageVars
    /\ UNCHANGED <<sessionVars, chatVars, loginVars, apptVars>>
    /\ last' = [op |-> "PageReject", outcome |-> o, live |-> r.live,
                sent |-> {}]

\* AttendancePage: the `attendance` state, null until setAttendance(data)
AttendanceState(data) ==
    IF Has(data, "getAttendance") THEN data.getAttendance ELSE NoData

\* AttendancePage: what is rendered, from `loading` and `attendance`
AttendancePageView(ld, attendance) ==
    IF ld THEN [shows |-> "Loading...", rows |-> <<>>]
    ELSE IF Has(attendance, "attendance") /\ Len(attendance.attendance) > 0
         THEN [shows |-> "table", rows |-> attendance.attendance]
         ELSE [shows |-> "No attendance records found", rows |-> <<>>]

(***************************************************************************)
(* The average attendance of the Dashboard and the Profile page.           *)
(***************************************************************************)
\* attendance?.attendance?.length > 0
\*     ? attendance.attendance.reduce((sum, r) => sum + r.percentage, 0)
\*           / attendance.attendance.length
\*     : 0
\* The quotient is kept as a fraction of tenths of a percent.
avgAttendance(attendance) ==
    IF Has(attendance, "attendance") /\ Len(attendance.attendance) > 0
    THEN [num |-> SumField(attendance.attendance, "percentage"),
          den |-> Len(attendance.attendance)]
    ELSE [num |-> 0, den |-> 1]

\* avgAttendance.toFixed(1), in tenths, rounding half up
AvgToFixed1(avg) == (2 * avg.num + avg.den) \div (2 * avg.den)

\* avgAttendance >= 75
AvgAboveThreshold(avg) == avg.num >= LowThreshold * avg.den

\* DashboardPage: <StatCard title="Average Attendance" ... />; ProfilePage
\* shows the same value under "Average Attendance"
AverageCard(attendance) ==
    LET avg == avgAttendance(attendance)
    IN  [value |-> AvgToFixed1(avg),
         subtitle |-> IF AvgAboveThreshold(avg) THEN "Above 75%"
                      ELSE "Below 75%",
         color |-> IF AvgAboveThreshold(avg) THEN "green" ELSE "red"]

(***************************************************************************)
(* The fee status as the Dashboard, the Profile page and the Fees page     *)
(* show it.  `fees` is the page's state: null (no property) until          *)
(* setFees(data).                                                          *)
(***************************************************************************)
FeesState(data) == IF Has(data, "getFees") THEN data.getFees ELSE NoData

\* `fees?.due` as a condition: undefined and 0 are falsy
DueTruthy(fees) == IF Has(fees, "due") THEN fees.due # 0 ELSE FALSE

\* `fees?.due === 0`
DueIsZero(fees) == IF Has(fees, "due") THEN fees.due = 0 ELSE FALSE

\* `fees?.due || 0`
DueOrZero(fees) == IF Has(fees, "due") THEN fees.due ELSE 0

\* `fees?.status || "N/A"`
StatusOrNA(fees) == IF Has(fees, "status") THEN fees.status ELSE "N/A"

\* DashboardPage: <StatCard title="Fee Status" ... />
DashboardFeeCard(fees) ==
    [value |-> StatusOrNA(fees),
     subtitle |-> IF DueTruthy(fees) THEN "Due" ELSE "Paid in Full",
     amount |-> IF DueTruthy(fees) THEN fees.due ELSE 0,
     color |-> IF (IF Has(fees, "due") THEN fees.due > 0 ELSE FALSE)
               THEN "yellow" ELSE "green"]

\* ProfilePage: {fees?.due === 0 ? (paid in full) : (outstanding balance)}
ProfileFeeStatus(fees) ==
    IF DueIsZero(fees)
    THEN [text |-> "All fees paid in full!", amount |-> 0]
    ELSE [text |-> "Outstanding balance", amount |-> DueOrZero(fees)]

\* FeesPage: const isPaid = fees?.due === 0 || fees?.status === "Paid"
isPaid(fees) ==
    DueIsZero(fees) \/ (IF Has(fees, "status") THEN fees.status = "Paid"
                        ELSE FALSE)

\* FeesPage: the status message and the Pay Now button
FeesPageStatus(fees) ==
    IF isPaid(fees)
    THEN [text |-> "All Fees Paid", amount |-> 0, payNow |-> FALSE]
    ELSE [text |-> "Outstanding Balance", amount |-> DueOrZero(fees),
          payNow |-> TRUE]

(***************************************************************************)
(* AppointmentPage.                                                        *)
(***************************************************************************)
BookedText == <<"Appointment booked successfully!">>
BookingFallbackText == <<"Failed to book appointment">>
CancelledText == <<"Booking cancelled">>

\* handleChange: the user fills the form, or empties a field of it
handleChange(filled) ==
    /\ route = "appointment"
    /\ ~apptShowConfirm
    /\ filled # apptFilled
    /\ FlushEffects
    /\ apptFilled' = filled
    /\ UNCHANGED <<apptShowConfirm, apptLoading, apptMessage>>
    /\ UNCHANGED <<token, user, route, chatVars, loginVars, pageVars, pending>>
    /\ last' = [op |-> "handleChange", sent |-> {}]

\* variant: submitting the form books at once, with no confirmation view
handlePreview_Books ==
    /\ route = "appointment"
    /\ ~apptShowConfirm
    /\ apptFilled
    /\ FlushEffects
    /\ apptLoading' = TRUE
    /\ pending' = pending (+) One(Request("bookAppointment", "AppointmentPage"))
    /\ UNCHANGED <<apptFilled, apptShowConfirm, apptMessage>>
    /\ UNCHANGED <<token, user, route, chatVars, loginVars, pageVars>>
    /\ last' = [op |-> "handlePreview",
                sent |-> {Wire("bookAppointment", Interceptor(stored'), <<>>)}]

\* the form is submitted; every field of it is `required`
handlePreview ==
    /\ route = "appointment"
    /\ ~apptShowConfirm
    /\ apptFilled
    /\ FlushEffects
    /\ apptShowConfirm' = TRUE
    /\ UNCHANGED <<apptFilled, apptLoading, apptMessage>>
    /\ UNCHANGED <<token, user, route, chatVars, loginVars, pageVars, pending>>
    /\ last' = [op |-> "handlePreview", sent |-> {}]

\* handleConfirm up to `await apiService.bookAppointment(formData)`; the
\* Confirm button is disabled while loading
handleConfirm ==
    /\ route = "appointment"
    /\ apptShowConfirm
    /\ ~apptLoading
    /\ FlushEffects
    /\ apptLoading' = TRUE
    /\ apptMessage' = NoMessage
    /\ pending' = pending (+) One(Request("bookAppointment", "AppointmentPage"))
    /\ UNCHANGED <<apptFilled, apptShowConfirm>>
    /\ UNCHANGED <<token, user, route, chatVars, loginVars, pageVars>>
    /\ last' = [op |-> "handleConfirm",
                sent |-> {Wire("bookAppointment", Interceptor(stored'), <<>>)}]

\* the Cancel button (it is not disabled while loading)
handleCancel ==
    /\ route = "appointment"
    /\ apptShowConfirm
    /\ FlushEffects
    /\ apptShowConfirm' = FALSE
    /\ apptMessage' = [type |-> "info", text |-> CancelledText]
    /\ UNCHANGED <<apptFilled, apptLoading>>
    /\ UNCHANGED <<token, user, route, chatVars, loginVars, pageVars, pending>>
    /\ last' = [op |-> "handleCancel", sent |-> {}]

\* error.response?.data?.detail || "Failed to book appointment"
BookingErrorText(o) ==
    IF o.kind = "http" THEN OrText(o.data, "detail", BookingFallbackText)
    ELSE BookingFallbackText

\* handleConfirm, try after the await, and finally
BookingSuccess(r, o) ==
    /\ r \in BagToSet(pending)
    /\ r.op = "bookAppointment"
    /\ o \in BookingOutcomes
    /\ ~AxiosRejects(o)
    /\ pending' = pending (-) One(r)
    /\ IF r.live
       THEN /\ apptMessage' = [type |-> "success", text |-> BookedText]
            /\ apptFilled' = FALSE
            /\ apptShowConfirm' = FALSE
            /\ apptLoading' = FALSE
       ELSE UNCHANGED apptVars
    /\ UNCHANGED <<sessionVars, chatVars, loginVars, pageVars>>
    /\ last' = [op |-> "BookingSuccess", outcome |-> o, live |-> r.live,
                sent |-> {}]

\* handleConfirm, catch and finally
BookingFailure(r, o) ==
    /\ r \in BagToSet(pending)
    /\ r.op = "bookAppointment"
    /\ o \in BookingOutcomes
    /\ AxiosRejects(o)
    /\ pending' = pending (-) One(r)
    /\ IF r.live
       THEN /\ apptMessage' = [type |-> "error", text |-> BookingErrorText(o)]
            /\ apptLoading' = FALSE
            /\ UNCHANGED <<apptFilled, apptShowConfirm>>
       ELSE UNCHANGED apptVars
    /\ UNCHANGED <<sessionVars, chatVars, loginVars, pageVars>>
    /\ last' = [op |-> "BookingFailure", outcome |-> o, live |-> r.live,
                sent |-> {}]

(***************************************************************************)
(* ChatInterface.                                                          *)
(***************************************************************************)
SuggestedPrompts ==
    {[text |-> AttendancePromptText, action |-> "attendance"]}
        \cup {[text |-> t, action |-> "chat"] : t \in ChatPromptTexts}

\* variant: the quick actions stay on screen beside the transcript
PromptsShown_Always(msgs) == TRUE

\* {messages.length === 0 ? (welcome section and quick actions) : (...)}
PromptsShown(msgs) == Len(msgs) = 0

\* <input ... disabled={loading} />
InputEnabled(ld) == ~ld

\* <button type="submit" disabled={loading || !input.trim()}>
SendEnabled(ld, inp) == ~(ld \/ Trim(inp) = <<>>)

\* the render at the end of a handler that changed state
Commit ==
    /\ cMessages' = messages'
    /\ cLoading' = loading'

\* headers: { Authorization: `Bearer ${token}` }, with the token prop
Bearer(tok) == tok

\* variant: the body is the captured transcript, without the new message
ChatBody_Stale(msgs, userMessage) == msgs

\* body: JSON.stringify({ messages: [...messages, userMessage] }), where
\* `messages` is the value captured by the closure
ChatBody(msgs, userMessage) == Append(msgs, userMessage)

\* sendMessage up to `await fetch(...)`; `prev` is the current state
sendMessage(text) ==
    IF Trim(text) = <<>>
    THEN /\ UNCHANGED <<chatVars, pending>>
         /\ last' = [op |-> "sendMessage", text |-> text, sent |-> {}]
    ELSE LET userMessage == UserMessage(text)
         IN  /\ messages' = Append(messages, userMessage)
             /\ input' = <<>>
             /\ loading' = TRUE
             /\ pending' = pending (+) One(Request("chat", "ChatInterface"))
             /\ Commit
             /\ last' = [op |-> "sendMessage", text |-> text,
                         sent |-> {Wire("chat", Bearer(token),
                                        ChatBody(cMessages, userMessage))}]

\* variant: the busy flag is not raised (no setLoading(true))
fetchAttendance_NotBusy ==
    LET userMessage == UserMessage(AttendancePromptText)
    IN  /\ messages' = Append(messages, userMessage)
        /\ pending' = pending (+) One(Request("attendance", "ChatInterface"))
        /\ UNCHANGED <<input, loading>>
        /\ Commit
        /\ last' = [op |-> "fetchAttendance",
                    sent |-> {Wire("attendance", Bearer(token), <<>>)}]

\* fetchAttendance up to `await fetch(...)`
fetchAttendance ==
    LET userMessage == UserMessage(AttendancePromptText)
    IN  /\ messages' = Append(messages, userMessage)
        /\ loading' = TRUE
        /\ pending' = pending (+) One(Request("attendance", "ChatInterface"))
        /\ UNCHANGED input
        /\ Commit
        /\ last' = [op |-> "fetchAttendance",
                    sent |-> {Wire("attendance", Bearer(token), <<>>)}]

Room == Len(messages) < MaxMsgs

\* onChange of the text input
TypeInput(t) ==
    /\ ChatMounted
    /\ InputEnabled(cLoading)
    /\ t # input
    /\ FlushEffects
    /\ input' = t
    /\ UNCHANGED <<messages, loading>>
    /\ Commit
    /\ UNCHANGED <<token, user, route, loginVars, pageVars, pending, apptVars>>
    /\ last' = [op |-> "TypeInput", sent |-> {}]

\* the form's submit event: raised by the send button, which is enabled for
\* a text that is not blank, or from the input (Enter), which is enabled
\* whatever its text
handleSubmit ==
    /\ ChatMounted
    /\ SendEnabled(cLoading, input) \/ InputEnabled(cLoading)
    /\ Room
    /\ FlushEffects
    /\ sendMessage(input)
    /\ UNCHANGED <<token, user, route, loginVars, pageVars, apptVars>>

handlePromptClick(prompt) ==
    /\ ChatMounted
    /\ PromptsShown(cMessages)
    /\ Room
    /\ FlushEffects
    /\ IF prompt.action = "attendance"
       THEN fetchAttendance
       ELSE sendMessage(prompt.text)
    /\ UNCHANGED <<token, user, route, loginVars, pageVars, apptVars>>

\* variant: the busy flag is not cleared (the finally block is missing)
Settle_NoFinally(r, message) ==
    /\ pending' = pending (-) One(r)
    /\ IF r.live
       THEN /\ messages' = Append(messages, message)
            /\ UNCHANGED <<loading, input, cMessages, cLoading>>
       ELSE UNCHANGED chatVars
    /\ UNCHANGED <<sessionVars, loginVars, pageVars, apptVars>>

\* variant: the answer is applied to whatever ChatInterface is mounted
Settle_IgnoresMount(r, message) ==
    /\ pending' = pending (-) One(r)
    /\ messages' = Append(messages, message)
    /\ loading' = FALSE
    /\ UNCHANGED <<input, cMessages, cLoading>>
    /\ UNCHANGED <<sessionVars, loginVars, pageVars, apptVars>>

\* variant: the answer clears the busy flag and shows no message
Settle_Silent(r, message) ==
    /\ pending' = pending (-) One(r)
    /\ IF r.live
       THEN /\ loading' = FALSE
            /\ UNCHANGED <<messages, input, cMessages, cLoading>>
       ELSE UNCHANGED chatVars
    /\ UNCHANGED <<sessionVars, loginVars, pageVars, apptVars>>

\* a state update of an unmounted component is dropped
Settle(r, message) ==
    /\ pending' = pending (-) One(r)
    /\ IF r.live
       THEN /\ messages' = Append(messages, message)
            /\ loading' = FALSE
            /\ UNCHANGED <<input, cMessages, cLoading>>
       ELSE UNCHANGED chatVars
    /\ UNCHANGED <<sessionVars, loginVars, pageVars, apptVars>>

\* sendMessage: `await response.json()` gives data
ChatReply(r, o) ==
    /\ r \in BagToSet(pending)
    /\ r.by = "ChatInterface" /\ r.op = "chat"
    /\ o \in ChatOutcomes
    /\ ~FetchRejects(o)
    /\ Settle(r, ChatReplyMessage(o.data))
    /\ last' = [op |-> "ChatReply", outcome |-> o, live |-> r.live,
                sent |-> {}]

\* sendMessage: fetch or response.json() rejects
ChatFailure(r, o) ==
    /\ r \in BagToSet(pending)
    /\ r.by = "ChatInterface" /\ r.op = "chat"
    /\ o \in ChatOutcomes
    /\ FetchRejects(o)
    /\ Settle(r, ChatErrorMessage)
    /\ last' = [op |-> "ChatFailure", outcome |-> o, live |-> r.live,
                sent |-> {}]

\* fetchAttendance: `await response.json()` gives data; o is an answer to
\* GET /student/attendance
AttendanceReply(r, o) ==
    /\ r \in BagToSet(pending)
    /\ r.by = "ChatInterface" /\ r.op = "attendance"
    /\ ~FetchRejects(o)
    /\ Settle(r, AttendanceMessage(o.data))
    /\ last' = [op |-> "AttendanceReply", outcome |-> o, live |-> r.live,
                sent |-> {}]

\* fetchAttendance: fetch or response.json() rejects
AttendanceFailure(r, o) ==
    /\ r \in BagToSet(pending)
    /\ r.by = "ChatInterface" /\ r.op = "attendance"
    /\ FetchRejects(o)
    /\ Settle(r, AttendanceErrorMessage)
    /\ last' = [op |-> "AttendanceFailure", outcome |-> o, live |-> r.live,
                sent |-> {}]

\* React renders the updates made by a promise continuation
Render ==
    /\ ChatMounted
    /\ <<cMessages, cLoading>> # <<messages, loading>>
    /\ FlushEffects
    /\ UNCHANGED <<messages, loading, input>>
    /\ Commit
    /\ UNCHANGED <<token, user, route, loginVars, pageVars, pending, apptVars>>
    /\ last' = [op |-> "Render", sent |-> {}]

(***************************************************************************)
(* The specification.                                                      *)
(***************************************************************************)
ChatSettles ==
    \E r \in BagToSet(pending) :
        \/ \E o \in ChatOutcomes : ChatReply(r, o) \/ ChatFailure(r, o)
        \/ \E o \in AttendanceOutcomes :
               AttendanceReply(r, o) \/ AttendanceFailure(r, o)

PageRequests == {r \in BagToSet(pending) : r.by = "page"}

Next ==
    \/ \E r \in Routes : Navigate(r)
    \/ handleLogout
    \/ RunEffect
    \/ Reload
    \/ LoginSubmit
    \/ \E r \in BagToSet(pending), o \in LoginOutcomes : LoginSuccess(r, o)
    \/ \E r \in BagToSet(pending), o \in LoginOutcomes : LoginFailure(r, o)
    \/ \E filled \in BOOLEAN : handleChange(filled)
    \/ handlePreview
    \/ handleConfirm
    \/ handleCancel
    \/ \E r \in BagToSet(pending), o \in BookingOutcomes : BookingSuccess(r, o)
    \/ \E r \in BagToSet(pending), o \in BookingOutcomes : BookingFailure(r, o)
    \/ \E r \in PageRequests : \E o \in PageOutcomes(r.op) : PageFulfil(r, o)
    \/ \E r \in PageRequests : \E o \in PageOutcomes(r.op) : PageReject(r, o)
    \/ \E t \in TypedTexts : TypeInput(t)
    \/ handleSubmit
    \/ \E p \in SuggestedPrompts : handlePromptClick(p)
    \/ ChatSettles
    \/ Render

Spec == Init /\ [][Next]_vars

(***************************************************************************)
(* The conversation under fairness: a request in flight is answered or     *)
(* fails in the end, and React renders a scheduled update; nothing obliges *)
(* the user to act.  The user keeps to the pages that load no data, books  *)
(* no appointment, does not reload, and does not log in again after a      *)
(* logout.                                                                 *)
(***************************************************************************)
QuietRoutes == {r \in Routes : PageCalls(r) = {}}

FairInit == Init /\ route \in QuietRoutes

FairNext ==
    \/ \E r \in QuietRoutes : Navigate(r)
    \/ handleLogout
    \/ \E t \in TypedTexts : TypeInput(t)
    \/ handleSubmit
    \/ \E p \in SuggestedPrompts : handlePromptClick(p)
    \/ ChatSettles
    \/ Render

FairSpec ==
    FairInit /\ [][FairNext]_vars /\ WF_vars(ChatSettles) /\ WF_vars(Render)

(***************************************************************************)
(* The attendance fast path over the generated attendance lists: a student *)
(* on the chat view asks for the attendance and the backend answers.       *)
(***************************************************************************)
AttendanceInit == Init /\ route = "chat"

AttendanceNext ==
    \/ handlePromptClick([text |-> AttendancePromptText,
                          action |-> "attendance"])
    \/ \E r \in BagToSet(pending), o \in AllAttendanceOutcomes :
           AttendanceReply(r, o)
    \/ \E r \in BagToSet(pending), o \in AllAttendanceOutcomes :
           AttendanceFailure(r, o)
    \/ Render

AttendanceSpec == AttendanceInit /\ [][AttendanceNext]_vars

(***************************************************************************)
(* The pages that show the fee status, over the fee bodies: a logged-in    *)
(* student moves between the Dashboard, the Profile page and the Fees      *)
(* page, and the backend answers the calls of their mount effects.         *)
(***************************************************************************)
FeeRoutes == {"dashboard", "profile", "fees"}

FeePageOutcomes(op) == IF op = "getFees" THEN FeeOutcomes ELSE PageOutcomes(op)

FeeInit == Init /\ route \in FeeRoutes

FeeNext ==
    \/ \E r \in FeeRoutes : Navigate(r)
    \/ \E r \in PageRequests : \E o \in FeePageOutcomes(r.op) : PageFulfil(r, o)
    \/ \E r \in PageRequests : \E o \in FeePageOutcomes(r.op) : PageReject(r, o)

FeeSpec == FeeInit /\ [][FeeNext]_vars

(***************************************************************************)
(* The pages that show the average attendance, over the graded attendance  *)
(* lists: a logged-in student moves between the Dashboard and the Profile  *)
(* page, and the backend answers the calls of their mount effects.         *)
(***************************************************************************)
AverageRoutes == {"dashboard", "profile"}

AveragePageOutcomes(op) ==
    IF op = "getAttendance" THEN GradedOutcomes
    ELSE {Http(200, TRUE, PageBody(op))}

AverageInit == Init /\ route \in AverageRoutes

AverageNext ==
    \/ \E r \in AverageRoutes : Navigate(r)
    \/ \E r \in PageRequests :
           \E o \in AveragePageOutcomes(r.op) : PageFulfil(r, o)
    \/ \E r \in PageRequests :
           \E o \in AveragePageOutcomes(r.op) : PageReject(r, o)

AverageSpec == AverageInit /\ [][AverageNext]_vars

(***************************************************************************)
(* State functions used by the properties.                                 *)
(***************************************************************************)
\* the fee status the mounted page shows, and whether it reads as paid
FeeView(r, fees) ==
    CASE r = "dashboard" ->
             [paid |-> DashboardFeeCard(fees).subtitle = "Paid in Full",
              amount |-> DashboardFeeCard(fees).amount]
      [] r = "profile" ->
             [paid |-> ProfileFeeStatus(fees).text = "All fees paid in full!",
              amount |-> ProfileFeeStatus(fees).amount]
      [] r = "fees" ->
             [paid |-> FeesPageStatus(fees).text = "All Fees Paid",
              amount |-> FeesPageStatus(fees).amount]

\* the mounted page has finished loading and shows its content
PageShown == route \in FeeRoutes /\ ~pageLoading

\* requests of the mounted ChatInterface that are in flight
InFlight ==
    CopiesIn(Request("chat", "ChatInterface"), pending)
        + CopiesIn(Request("attendance", "ChatInterface"), pending)

\* booking requests of the mounted AppointmentPage that are in flight
BookingsInFlight ==
    CopiesIn(Request("bookAppointment", "AppointmentPage"), pending)

BookingWires(sent) == {w \in sent : w.op = "bookAppointment"}

ChatWires(sent) == {w \in sent : w.op \in {"chat", "attendance"}}

Settled(l) ==
    l.op \in {"ChatReply", "ChatFailure", "AttendanceReply",
              "AttendanceFailure"}

Is2xx(o) == IF o.kind = "http" THEN o.status \in 200..299 ELSE FALSE

Is401(o) == IF o.kind = "http" THEN o.status = 401 ELSE FALSE

LastMessage == messages[Len(messages)]

\* the records of the attendance answer the mounted chat view has just
\* taken, when it holds any
AnsweredRecords ==
    IF last.op = "AttendanceReply"
    THEN IF last.live /\ Has(last.outcome.data, "attendance")
         THEN last.outcome.data.attendance ELSE <<>>
    ELSE <<>>

RECURSIVE IndexSum(_, _, _)
IndexSum(recs, f, n) ==
    IF n = 0 THEN 0 ELSE recs[n][f] + IndexSum(recs, f, n - 1)

(***************************************************************************)
(* C1.  Mutual exclusion in the chat conversation: at most one request (a  *)
(* chat POST or an attendance GET of the fast path) of the mounted         *)
(* ChatInterface is in flight, and a step taken while one is in flight     *)
(* sends no further chat or attendance request and, unless it settles the  *)
(* request or unmounts the view, leaves the transcript as it is.  The      *)
(* handlers hold no guard of their own: the send button and the input are  *)
(* disabled while loading, and the prompts are rendered only for an empty  *)
(* transcript, which a request in flight never has.                        *)
(***************************************************************************)
C1_MutualExclusion ==
    /\ [](InFlight <= 1)
    /\ [][InFlight > 0 =>
            /\ InFlight' <= InFlight
            /\ ChatWires(last'.sent) = {}
            /\ (InFlight' = InFlight => messages' = messages)]_vars

\* the second exchange of a conversation is in flight
C1_Witness ==
    /\ InFlight = 1
    /\ loading /\ cLoading
    /\ Len(messages) = 3

(***************************************************************************)
(* C2.  When a chat request of the mounted conversation is answered with a *)
(* 2xx response, exactly one assistant message is appended: its content is *)
(* the reply, or the placeholder when the reply is empty or absent; its    *)
(* sources and actions are the arrays of the response, each empty when     *)
(* absent; and loading is false.                                           *)
(***************************************************************************)
C2_SuccessAppendsReply ==
    [][(last'.op \in {"ChatReply", "ChatFailure"} /\ last'.live
            /\ Is2xx(last'.outcome)) =>
        LET data == last'.outcome.data
            reply == IF "reply" \in DOMAIN data THEN data.reply ELSE <<>>
        IN  /\ messages' = Append(messages,
                [role |-> "assistant",
                 content |-> IF reply = <<>> THEN FallbackReply ELSE reply,
                 sources |-> IF "sources" \in DOMAIN data
                             THEN data.sources ELSE <<>>,
                 actions |-> IF "actions" \in DOMAIN data
                             THEN data.actions ELSE <<>>])
            /\ ~loading']_vars

\* an empty reply was answered and the placeholder stands in the transcript
C2_Witness ==
    /\ last.op = "ChatReply" /\ last.live
    /\ Is2xx(last.outcome)
    /\ last.outcome.data.reply = <<>>
    /\ LastMessage.content = FallbackReply
    /\ ~loading

(***************************************************************************)
(* C3.  When a chat request of the mounted conversation fails, by a        *)
(* network error or by a response outside 2xx, exactly one assistant       *)
(* message holding the fixed error text is appended, loading is false and  *)
(* the step sends no request (no retry).                                   *)
(***************************************************************************)
C3_FailureAppendsError ==
    [][(last'.op \in {"ChatReply", "ChatFailure"} /\ last'.live
            /\ ~Is2xx(last'.outcome)) =>
        /\ Len(messages') = Len(messages) + 1
        /\ SubSeq(messages', 1, Len(messages)) = messages
        /\ messages'[Len(messages')].role = "assistant"
        /\ messages'[Len(messages')].content = ChatErrorText
        /\ ~loading'
        /\ last'.sent = {}]_vars

(***************************************************************************)
(* C4.  A 401 response to any authenticated call clears the token in       *)
(* memory and in localStorage, empties the transcript and shows the login  *)
(* view.                                                                   *)
(***************************************************************************)
C4_UnauthorizedLogsOut ==
    [][(last'.op \in {"ChatReply", "ChatFailure", "AttendanceReply",
                      "AttendanceFailure", "PageFulfil", "PageReject"}
            /\ Is401(last'.outcome)) =>
        /\ token' = Null
        /\ stored' = Null
        /\ messages' = <<>>
        /\ route' = "login"]_vars

(***************************************************************************)
(* C5.  The messages of a chat request are the whole transcript as it      *)
(* stands once the new user message is appended: all earlier messages in   *)
(* order, then the new user message.                                       *)
(***************************************************************************)
C5_BodyIsTranscript ==
    \A w \in last.sent :
        w.op = "chat" =>
            /\ w.body = messages
            /\ LastMessage.role = "user"
            /\ loading

\* a chat request sent after a failed attendance call
C5_Witness ==
    /\ last.op = "sendMessage"
    /\ last.sent # {}
    /\ Len(messages) = 3
    /\ messages[1].content = AttendancePromptText
    /\ messages[2].content = AttendanceErrorText

(***************************************************************************)
(* C6.  Liveness of the conversation, as claimed: a submission moves the   *)
(* conversation from Idle to Sending, and once the request is in flight    *)
(* with a transcript of n messages (the user message last), the            *)
(* conversation is eventually Idle with n + 1 messages.                    *)
(***************************************************************************)
SubmissionStep == last'.op \in {"sendMessage", "fetchAttendance"}
                      /\ ChatWires(last'.sent) # {}

C6_EventuallyIdle ==
    /\ [][SubmissionStep =>
            ~loading /\ loading' /\ Len(messages') = Len(messages) + 1]_vars
    /\ \A n \in 1..(MaxMsgs + 1) :
          (loading /\ Len(messages) = n)
              ~> (~loading /\ InFlight = 0 /\ Len(messages) = n + 1)

(***************************************************************************)
(* C6, amended.  The same, unless the chat view is unmounted (a logout or  *)
(* a navigation away) before the request settles: the conversation then    *)
(* ends with its transcript.  While the view is mounted, loading is true   *)
(* exactly while its request is in flight, and the message appended last   *)
(* after a settlement is the assistant's.                                  *)
(***************************************************************************)
C6_EventuallyIdleWhileMounted ==
    /\ [][SubmissionStep =>
            ~loading /\ loading' /\ Len(messages') = Len(messages) + 1]_vars
    /\ [](loading <=> InFlight = 1)
    /\ [](Settled(last) /\ last.live =>
            ~loading /\ LastMessage.role = "assistant")
    /\ \A n \in 1..(MaxMsgs + 1) :
          (loading /\ Len(messages) = n)
              ~> \/ ~loading /\ InFlight = 0 /\ Len(messages) = n + 1
                 \/ ~ChatMounted

\* an attendance call of the fast path has settled and the view is Idle
\* with two messages
C6_Witness ==
    /\ last.op \in {"AttendanceReply", "AttendanceFailure"} /\ last.live
    /\ ~loading
    /\ InFlight = 0
    /\ Len(messages) = 2

(***************************************************************************)
(* C7.  After handleLogout the session is logged out: no token in memory,  *)
(* none in localStorage and no effect left that would write one, the login *)
(* view shown, and no transcript; a chat view mounted later starts Idle    *)
(* with an empty transcript.                                               *)
(***************************************************************************)
C7_LogoutClearsSession ==
    /\ [](last.op = "handleLogout" =>
            /\ token = Null
            /\ stored = Null
            /\ ~effectPending
            /\ route = "login"
            /\ messages = <<>> /\ cMessages = <<>>
            /\ ~loading
            /\ InFlight = 0)
    /\ [][route # "chat" /\ route' = "chat" =>
            messages' = <<>> /\ cMessages' = <<>> /\ ~loading'
                /\ InFlight' = 0]_vars

\* a logout while a request of the page is in flight
C7_Witness ==
    /\ last.op = "handleLogout"
    /\ pending # EmptyBag
    /\ token = Null

(***************************************************************************)
(* C8.  Route guard: without a token no protected view is mounted; a       *)
(* navigation to a protected route made without a token ends on the login  *)
(* view and sends no request; and no step that ends without a token sends  *)
(* a request other than a login.                                           *)
(***************************************************************************)
C8_RouteGuard ==
    /\ token = Null => route \notin Protected
    /\ (last.op = "Navigate" /\ token = Null) =>
           (last.to \in Protected => route = "login" /\ last.sent = {})
    /\ token = Null => \A w \in last.sent : w.op = "login"

\* a navigation to a protected route was redirected to the login view
C8_Witness ==
    /\ last.op = "Navigate"
    /\ last.to \in Protected
    /\ token = Null
    /\ route = "login"

(***************************************************************************)
(* C9.  A login answered with token t leaves token = t in memory and the   *)
(* chat view mounted, and once App's effect has run localStorage holds t.  *)
(***************************************************************************)
C9_LoginSuccess ==
    /\ last.op = "LoginSuccess" =>
           /\ token = last.outcome.data.token
           /\ token \in Tokens
           /\ route = "chat"
           /\ effectPending \/ stored = token
    /\ ~effectPending => stored = token

\* the login has just been answered and the effect has not run yet
C9_Witness ==
    /\ last.op = "LoginSuccess"
    /\ token = <<"abc">>
    /\ route = "chat"
    /\ effectPending
    /\ stored = Null

(***************************************************************************)
(* C10.  A failed login (a network error or a response outside 2xx) takes  *)
(* the catch path: token, localStorage and route are unchanged; and when   *)
(* the LoginPage that sent it is mounted, the error is the detail of the   *)
(* response when there is one, else the fallback text, and loading is      *)
(* false.                                                                  *)
(***************************************************************************)
C10_LoginFailure ==
    [][(last'.op \in {"LoginSuccess", "LoginFailure"}
            /\ ~Is2xx(last'.outcome)) =>
        /\ last'.op = "LoginFailure"
        /\ token' = token /\ stored' = stored /\ route' = route
        /\ last'.live =>
              /\ route' = "login"
              /\ ~loginLoading'
              /\ loginError' =
                    IF last'.outcome.kind = "http"
                          /\ "detail" \in DOMAIN last'.outcome.data
                    THEN last'.outcome.data.detail
                    ELSE LoginFallbackText]_vars

\* the backend's detail is shown on the login view
C10_Witness ==
    /\ last.op = "LoginFailure" /\ last.live
    /\ loginError = <<"Invalid credentials">>
    /\ ~loginLoading
    /\ route = "login"

(***************************************************************************)
(* C11.  Every request other than a login (the data pages' loads, the      *)
(* appointment booking, the chat POST and the attendance GET of the chat   *)
(* view) carries the bearer token that is the session token in memory at   *)
(* the moment the request is sent.  The API client reads the token from    *)
(* localStorage and the chat view from its prop: the two agree whenever a  *)
(* request is sent.                                                        *)
(***************************************************************************)
C11_BearerOnEveryCall ==
    \A w \in last.sent :
        w.op # "login" => (token \in Tokens /\ w.auth = token)

\* the four loads of the dashboard, sent with the token of the session
C11_Witness ==
    /\ last.op = "Navigate"
    /\ route = "dashboard"
    /\ Cardinality(last.sent) = 4
    /\ \A w \in last.sent : w.auth = <<"abc">>

(***************************************************************************)
(* C12.  A login request carries no bearer credential, also when a token   *)
(* of an earlier login is held in localStorage.                            *)
(***************************************************************************)
C12_LoginCarriesNoToken ==
    \A w \in last.sent : w.op = "login" => w.auth = NoAuth

(***************************************************************************)
(* C13.  No failure is dropped in silence: when a call of a mounted view   *)
(* fails (a network error or a response outside 2xx), the view shows an    *)
(* error: the login view its inline error, the chat view an assistant      *)
(* message with the error text of the call, the appointment view an error  *)
(* message, and the attendance page something other than what it shows     *)
(* after a successful load of an empty list.                               *)
(***************************************************************************)
C13_NoSilentFailure ==
    [][("outcome" \in DOMAIN last' /\ last'.live /\ ~Is2xx(last'.outcome)) =>
        CASE last'.op \in {"LoginSuccess", "LoginFailure"} ->
                 loginError' # <<>>
          [] last'.op \in {"ChatReply", "ChatFailure"} ->
                 messages'[Len(messages')].content = ChatErrorText
          [] last'.op \in {"AttendanceReply", "AttendanceFailure"} ->
                 messages'[Len(messages')].content = AttendanceErrorText
          [] last'.op \in {"BookingSuccess", "BookingFailure"} ->
                 apptMessage'.type = "error"
          [] last'.op \in {"PageFulfil", "PageReject"} ->
                 route' = "attendance" =>
                     AttendancePageView(pageLoading', AttendanceState(pageData'))
                         # AttendancePageView(FALSE, EmptyAttendanceBody)
          [] OTHER -> TRUE]_vars

(***************************************************************************)
(* C14.  Attendance aggregation: for a non-empty list of records,          *)
(* totalAttended is the sum of attended, totalClasses the sum of           *)
(* total_classes, and overallPercentage is 0 when totalClasses is 0 and    *)
(* else the tenth nearest to 100 x totalAttended / totalClasses; these are *)
(* the three figures the report shows.                                     *)
(***************************************************************************)
C14_Aggregation ==
    LET recs == AnsweredRecords
        a == IndexSum(recs, "attended", Len(recs))
        t == IndexSum(recs, "total_classes", Len(recs))
        p == OverallPercentage(recs)
    IN  Len(recs) > 0 =>
            /\ SumField(recs, "attended") = a
            /\ SumField(recs, "total_classes") = t
            /\ t = 0 => p = 0
            /\ t > 0 => (2 * t * p - 2000 * a) \in (0 - t)..t
            /\ LastMessage.content[3] = ToString(p)
            /\ LastMessage.content[5] = ToString(t)
            /\ LastMessage.content[7] = ToString(a)

\* the scenario 30/40 and 10/20: 40 of 60 classes, 66.7
C14_Witness ==
    /\ Len(AnsweredRecords) = 2
    /\ AnsweredRecords[1].attended = 30 /\ AnsweredRecords[2].attended = 10
    /\ LastMessage.content[3] = "667"
    /\ LastMessage.content[5] = "60"
    /\ LastMessage.content[7] = "40"

(***************************************************************************)
(* C15.  For every list of attendance records (attended <= total_classes   *)
(* in each), the overall percentage lies in [0, 100], and it is 0 when the *)
(* summed total_classes is 0.                                              *)
(***************************************************************************)
C15_PercentageInRange ==
    LET recs == AnsweredRecords
        p == OverallPercentage(recs)
    IN  Len(recs) > 0 =>
            /\ p \in 0..1000
            /\ (\A i \in 1..Len(recs) : recs[i].total_classes = 0) => p = 0
            /\ LastMessage.content[3] = ToString(p)

\* two courses of which no class was held yet
C15_Witness ==
    /\ Len(AnsweredRecords) = 2
    /\ \A i \in 1..2 : AnsweredRecords[i].total_classes = 0
    /\ LastMessage.content[3] = "0"

(***************************************************************************)
(* C16.  Low-attendance classification: the records flagged low are        *)
(* exactly those with a percentage strictly below 75, in input order, in   *)
(* each place: the status and the warning line of the course in the        *)
(* report, the count of the closing alert, and the amber styling of the    *)
(* course's card.  A record at exactly 75.0 is satisfactory in all of them.*)
(***************************************************************************)
C16_LowClassification ==
    LET recs == AnsweredRecords
        low == SelectSeq(recs, LAMBDA r : r.percentage < 750)
        content == LastMessage.content
    IN  Len(recs) > 0 =>
            /\ FilterLow(recs) = low
            /\ \A i \in 1..Len(recs) :
                   LET lines == RecordLines(recs[i], i)
                       isLow == recs[i].percentage < 750
                   IN  /\ isLow <=> lines[4] = "warn"
                       /\ isLow <=>
                              lines[Len(lines)] = "Below 75% - Needs improvement!"
                       /\ isLow <=> AttendanceCards(LastMessage)[i] = "amber"
            /\ IF Len(low) > 0
               THEN content[Len(content) - 1] = ToString(Len(low))
               ELSE content[Len(content)] =
                        "Great job! All subjects have attendance above 75%."

\* one course at 74.9 and one at exactly 75.0: one is flagged
C16_Witness ==
    /\ Len(AnsweredRecords) = 2
    /\ AnsweredRecords[1].percentage = 749
    /\ AnsweredRecords[2].percentage = 750
    /\ AttendanceCards(LastMessage) = <<"amber", "emerald">>
    /\ LastMessage.content[Len(LastMessage.content) - 1] = "1"

(***************************************************************************)
(* C17.  The attendance fast path never contacts the chat endpoint: the    *)
(* click appends the user message "Show my attendance" and sends exactly   *)
(* one attendance GET and no chat POST; an answer with a non-empty list    *)
(* appends exactly one assistant message whose attendanceData is the list  *)
(* as it came, and an answer with an empty or absent list appends exactly  *)
(* one assistant message with no attendanceData.  Neither step sends a     *)
(* further request.                                                        *)
(***************************************************************************)
C17_FastPath ==
    [][/\ last'.op = "fetchAttendance" =>
            /\ messages' = Append(messages, [role |-> "user",
                                             content |-> AttendancePromptText])
            /\ last'.sent = {Wire("attendance", token, <<>>)}
       /\ (last'.op = "AttendanceReply" /\ last'.live) =>
            LET data == last'.outcome.data
                msg == messages'[Len(messages')]
            IN  /\ Len(messages') = Len(messages) + 1
                /\ SubSeq(messages', 1, Len(messages)) = messages
                /\ msg.role = "assistant"
                /\ last'.sent = {}
                /\ IF "attendance" \in DOMAIN data
                   THEN IF Len(data.attendance) > 0
                        THEN /\ "attendanceData" \in DOMAIN msg
                             /\ msg.attendanceData = data.attendance
                        ELSE "attendanceData" \notin DOMAIN msg
                   ELSE "attendanceData" \notin DOMAIN msg]_vars

\* the answer with two records stands in the transcript after the question
C17_Witness ==
    /\ Len(AnsweredRecords) = 2
    /\ Len(messages) = 2
    /\ messages[1].content = AttendancePromptText
    /\ LastMessage.attendanceData = AnsweredRecords

(***************************************************************************)
(* C18.  The session token has two writers, a successful login and the     *)
(* logout.  Within a document no other step changes the token in memory    *)
(* (a reload starts a new document, whose token is read from               *)
(* localStorage), and localStorage is written only by the logout, which    *)
(* removes the item, and by App's effect, which stores the token that the  *)
(* last login or logout left in memory.  The last write wins: a login      *)
(* leaves the token of its answer and a logout none, whatever was written  *)
(* before.                                                                 *)
(***************************************************************************)
C18_TokenWriters ==
    [][/\ token' # token =>
            \/ last'.op \in {"LoginSuccess", "handleLogout"}
            \/ last'.op = "Reload" /\ token' = stored
       /\ stored' # stored =>
            \/ last'.op = "handleLogout" /\ stored' = Null
            \/ effectPending /\ stored' = token
       /\ last'.op = "LoginSuccess" => token' = last'.outcome.data.token
       /\ last'.op = "handleLogout" => token' = Null /\ stored' = Null
       /\ last'.op \notin {"LoginSuccess", "handleLogout", "Reload"} =>
            token' = token]_vars

\* a second login has replaced the token of an earlier one, which is still
\* the one in localStorage until the effect runs
C18_Witness ==
    /\ last.op = "LoginSuccess"
    /\ token = <<"xyz">>
    /\ stored = <<"abc">>
    /\ effectPending

(***************************************************************************)
(* C19.  The session survives reloads, as claimed: after a reload the      *)
(* token in memory is the one localStorage held, and it is the token the   *)
(* session had before the reload: logged in with the same token after a    *)
(* login, logged out after a logout.                                       *)
(***************************************************************************)
C19_ReloadRestoresSession ==
    [][last'.op = "Reload" =>
            /\ token' = stored
            /\ token' = token]_vars

(***************************************************************************)
(* C19, amended.  After a reload the token in memory is the one            *)
(* localStorage held at the reload, and localStorage still holds it.  It   *)
(* is the token of the session before the reload once App's effect has     *)
(* stored the token of the last login; a reload that comes before the      *)
(* effect starts with what localStorage held before that login.  After a   *)
(* logout a reload always starts logged out, on an unprotected view.       *)
(***************************************************************************)
C19_ReloadRestoresStored ==
    [][last'.op = "Reload" =>
            /\ token' = stored
            /\ stored' = stored
            /\ ~effectPending => token' = token
            /\ token = Null => (token' = Null /\ route' \notin Protected)
            /\ route' = ProtectedRoute(route, stored)
            /\ last'.sent = MountWires(route', stored)]_vars

\* a logged-in student has reloaded the dashboard: same token, and the
\* loads are sent again
C19_Witness ==
    /\ last.op = "Reload"
    /\ last.had = <<"abc">>
    /\ token = <<"abc">>
    /\ route = "dashboard"
    /\ Cardinality(last.sent) = 4

(***************************************************************************)
(* C20.  A submission of a text that is empty or holds whitespace only is  *)
(* rejected before dispatch: no message is appended, no request is sent,   *)
(* and the transcript, the input and the busy flag stay as they are.  The  *)
(* send button is disabled for such a text, and sendMessage returns before *)
(* its first state update.                                                 *)
(***************************************************************************)
C20_BlankRejected ==
    /\ []((\A i \in 1..Len(input) : input[i] = " ") =>
              ~SendEnabled(cLoading, input))
    /\ [][(last'.op = "sendMessage"
              /\ \A i \in 1..Len(last'.text) : last'.text[i] = " ") =>
            /\ messages' = messages
            /\ input' = input
            /\ loading' = loading
            /\ cMessages' = cMessages
            /\ pending' = pending
            /\ last'.sent = {}]_vars

\* Enter was pressed on an input holding one space
C20_Witness ==
    /\ last.op = "sendMessage"
    /\ last.text = <<" ">>
    /\ last.sent = {}
    /\ input = <<" ">>
    /\ messages = <<>>
    /\ ~loading

(***************************************************************************)
(* C21.  The transcript is append-only while the user stays logged in: a   *)
(* step that starts and ends with a token in memory leaves the transcript  *)
(* it found as a prefix of the transcript it leaves, and adds at most one  *)
(* message.  (The code has no reset; the transcript is state of the        *)
(* ChatInterface component and goes with it whenever the view is left.)    *)
(***************************************************************************)
C21_AppendOnly ==
    [][(token # Null /\ token' # Null) =>
        /\ Len(messages') >= Len(messages)
        /\ Len(messages') <= Len(messages) + 1
        /\ \A i \in 1..Len(messages) : messages'[i] = messages[i]]_vars

(***************************************************************************)
(* C22.  In every state of the mounted chat view the busy flag (loading)   *)
(* is true exactly when a chat or attendance request of that view is in    *)
(* flight, and while it is true the rendered controls that start a         *)
(* submission are unavailable: the input and the send button are disabled  *)
(* and the suggested prompts are not rendered.                             *)
(***************************************************************************)
C22_BusyDisablesControls ==
    ChatMounted =>
        /\ loading <=> InFlight > 0
        /\ loading =>
               /\ cLoading
               /\ ~InputEnabled(cLoading)
               /\ ~SendEnabled(cLoading, input)
               /\ Len(cMessages) > 0
               /\ ~PromptsShown(cMessages)

\* the first message of a conversation was typed and submitted, and its
\* request is in flight
C22_Witness ==
    /\ ChatMounted
    /\ last.op = "sendMessage" /\ last.sent # {}
    /\ loading /\ InFlight = 1
    /\ Len(cMessages) = 1
    /\ cMessages[1].content = <<" ", "hi">>

(***************************************************************************)
(* C23.  Booking needs explicit confirmation: a step sends a               *)
(* bookAppointment request only if it is handleConfirm, taken on the       *)
(* appointment page while the confirmation view is shown, and it then      *)
(* sends one request; the confirmation view comes up only by               *)
(* handlePreview; handlePreview and handleCancel send nothing.             *)
(***************************************************************************)
C23_ExplicitConfirmation ==
    [][/\ (BookingWires(last'.sent) # {}
               \/ BookingsInFlight' > BookingsInFlight) =>
           /\ last'.op = "handleConfirm"
           /\ route = "appointment" /\ apptShowConfirm
           /\ BookingsInFlight' = BookingsInFlight + 1
           /\ Cardinality(last'.sent) = 1
       /\ last'.op \in {"handlePreview", "handleCancel"} =>
           /\ last'.sent = {}
           /\ pending' = pending
       /\ (apptShowConfirm' /\ ~apptShowConfirm) =>
           last'.op = "handlePreview"]_vars

\* the form was filled, previewed and confirmed: one request is in flight
C23_Witness ==
    /\ last.op = "handleConfirm"
    /\ BookingWires(last.sent) # {}
    /\ BookingsInFlight = 1
    /\ apptFilled /\ apptShowConfirm /\ apptLoading

(***************************************************************************)
(* C24.  Fee classification: a page that has loaded a FeeStatus with       *)
(* due = 0 shows it as paid in full, and one that has loaded a FeeStatus   *)
(* with due > 0 shows an outstanding balance of that amount.  This is      *)
(* stated of each of the three pages that show the fee status.             *)
(***************************************************************************)
C24_FeeClassification ==
    LET fees == FeesState(pageData)
        view == FeeView(route, fees)
    IN  (PageShown /\ Has(fees, "due")) =>
            /\ fees.due = 0 => view.paid
            /\ fees.due > 0 => (~view.paid /\ view.amount = fees.due)

(***************************************************************************)
(* C29.  The three views agree on the fee status: whatever fee state a     *)
(* page holds once it shows its content (fees loaded or not, due present   *)
(* or absent, any label), the Dashboard card, the Profile page and the     *)
(* Fees page all read it as paid or all read it as outstanding.            *)
(***************************************************************************)
C29_FeeViewsAgree ==
    LET fees == FeesState(pageData)
    IN  PageShown =>
            /\ FeeView("dashboard", fees).paid = FeeView("profile", fees).paid
            /\ FeeView("profile", fees).paid = FeeView("fees", fees).paid

(***************************************************************************)
(* C30.  The overall attendance figure is the same everywhere: for the     *)
(* non-empty list of records a Dashboard or Profile page has loaded, the   *)
(* "Average Attendance" it shows equals the overall percentage of the chat *)
(* aggregation (100 x total attended / total classes, to one decimal) of   *)
(* the same records, and the two lie on the same side of 75%.              *)
(***************************************************************************)
C30_SameOverallFigure ==
    LET attendance == AttendanceState(pageData)
        recs == attendance.attendance
    IN  (route \in AverageRoutes /\ ~pageLoading
             /\ Has(attendance, "attendance")) =>
            (Len(recs) > 0 =>
                /\ AverageCard(attendance).value = OverallPercentage(recs)
                /\ (AverageCard(attendance).subtitle = "Above 75%")
                       <=> (OverallPercentage(recs) >= LowThreshold))

(***************************************************************************)
(* C25.  Role alternation: in every state of the mounted chat view the     *)
(* transcript alternates user, assistant, user, assistant, ... from a user *)
(* message on; its length is even when the view is idle, and odd, with a   *)
(* user message last, when a request of the view is in flight.  Failed and *)
(* successful exchanges alike close with an assistant message.             *)
(***************************************************************************)
C25_RoleAlternation ==
    ChatMounted =>
        /\ \A i \in 1..Len(messages) :
               messages[i].role = IF i % 2 = 1 THEN "user" ELSE "assistant"
        /\ ~loading => Len(messages) % 2 = 0
        /\ InFlight > 0 =>
               /\ Len(messages) % 2 = 1
               /\ messages[Len(messages)].role = "user"

\* a failed chat exchange followed by an answered one, both closed
C25_Witness ==
    /\ ChatMounted /\ ~loading /\ InFlight = 0
    /\ Len(messages) = 4
    /\ messages[2].content = ChatErrorText
    /\ messages[3].content = <<" ", "hi">>
    /\ last.op = "ChatReply"

(***************************************************************************)
(* C26.  Token consistency: in every state in which no effect of App is    *)
(* pending, localStorage holds a token exactly when the token in memory is *)
(* present, and the two are equal; so the header the API client builds     *)
(* from localStorage and the header the chat view builds from the token    *)
(* prop are the same.                                                      *)
(***************************************************************************)
C26_TokenConsistency ==
    ~effectPending =>
        /\ (stored # Null) <=> (token # Null)
        /\ stored = token
        /\ token # Null => Interceptor(stored) = Bearer(token)

\* after a login whose effect has run, the chat view sends a request with
\* the token in memory while localStorage holds the same token
C26_Witness ==
    /\ ~effectPending
    /\ Has(user, "token")
    /\ last.op = "sendMessage" /\ last.sent # {}
    /\ \A w \in last.sent : w.auth = <<"xyz">>
    /\ stored = <<"xyz">>

(***************************************************************************)
(* C27.  Isolation of late answers: the answer, or the failure, of a chat  *)
(* or attendance request whose ChatInterface has been unmounted (by a      *)
(* logout or by leaving the chat view) changes nothing of the chat view    *)
(* that is mounted when it arrives: not its transcript, not its busy flag, *)
(* not its input; and a chat view that is newly mounted starts idle, with  *)
(* an empty transcript and no request of its own in flight.                *)
(***************************************************************************)
C27_LateAnswerIsolated ==
    [][/\ (Settled(last') /\ ~last'.live) =>
              /\ UNCHANGED chatVars
              /\ InFlight' = InFlight
       /\ (route' = "chat" /\ (route # "chat" \/ last'.op = "Reload")) =>
              /\ messages' = <<>> /\ cMessages' = <<>>
              /\ ~loading' /\ ~cLoading'
              /\ InFlight' = 0]_vars

\* the answer to the request of an earlier chat view arrives while the
\* present view waits for the answer to its own first message
C27_Witness ==
    /\ last.op = "ChatReply" /\ ~last.live
    /\ ChatMounted
    /\ loading /\ InFlight = 1
    /\ Len(messages) = 1

(***************************************************************************)
(* C28.  Cancel is final on the appointment page: when handleCancel runs   *)
(* no bookAppointment request of the page is in flight, and while the page *)
(* shows "Booking cancelled" the answer to a booking changes neither the   *)
(* message nor the form nor the view.                                      *)
(***************************************************************************)
C28_CancelIsFinal ==
    [][/\ last'.op = "handleCancel" => BookingsInFlight = 0
       /\ (apptMessage.text = CancelledText
               /\ last'.op \in {"BookingSuccess", "BookingFailure"}) =>
              UNCHANGED apptVars]_vars

====
